---- MODULE Spec2Model ----
(***************************************************************************)
(* Model of src/index.ts (ImportConfigPlugin): the constructor, the        *)
(* asynchronous import walker (importConfigs / importConfig), the path     *)
(* resolver (resolvePathToImport) and plugin reconciliation                *)
(* (loadImportedPlugins).                                                  *)
(*                                                                         *)
(* A path is a sequence of segments, a segment a pair <<name, extname>>;   *)
(* an absolute path starts with RootSeg.  The empty sequence is the empty  *)
(* string.  JavaScript's run-to-completion semantics is kept: one action   *)
(* is the code that runs between two suspension points (await).            *)
(***************************************************************************)
EXTENDS Naturals, Sequences, FiniteSets, TLC

VARIABLES
  phase,            \* "new" before the constructor ran, "constructed" after
  service,          \* this.serverless.service, the root document
  originalPlugins,  \* this.originalPlugins
  tasks,            \* the importConfig calls, in dispatch order
  walkers,          \* the importConfigs calls: 0 is the root's, t the one task t made
  pluginCalls,      \* calls made to the host plugin manager, in order
  cliLog,           \* serverless.cli.log lines ("Importing <path>"), in order
  stderr,           \* console.error output, in order
  rethrown,         \* the .catch handler of the constructor re-raised
  mergeLog,         \* the tasks whose fragment was merged, in merge order
  settleLog,        \* the tasks whose promise has settled, in settling order
  fsFiles,          \* absolute paths that exist as regular files
  fsDirs,           \* absolute paths that exist as directories
  resolvable,       \* <<absolute basedir, specifier>> pairs the module resolver resolves
  docs,             \* what loading each absolute file path yields
  hostHasLoad       \* typeof pluginManager.loadServicePlugins === "function"

vars == <<phase, service, originalPlugins, tasks, walkers, pluginCalls, cliLog,
          stderr, rethrown, mergeLog, settleLog, fsFiles, fsDirs, resolvable, docs, hostHasLoad>>

env == <<fsFiles, fsDirs, resolvable, docs, hostHasLoad>>

\* ------------------------------------------------------------------ bounds

MaxTasks == 4

\* --------------------------------------------------------------- constants

SERVERLESS == "serverless"
DIRNAME == "dirname"
JS_EXTNAME == ".js"
\* CONFIG_EXTNAMES with the extensions in alphabetical order
ConfigExtnamesSorted == <<JS_EXTNAME, ".yaml", ".yml">>

\* a Set iterates in insertion order
CONFIG_EXTNAMES == <<".yml", ".yaml", JS_EXTNAME>>

RootSeg == <<"/", "">>
REALPATH == <<RootSeg, <<"proj", "">>>>

NONE == "undefined"

\* ------------------------------------------------------------------- paths

Range(s) == {s[i] : i \in 1..Len(s)}

IsAbsolute(p) == Len(p) > 0 /\ p[1] = RootSeg

\* path.extname: the extension of the last segment
ExtName(p) == IF Len(p) = 0 THEN "" ELSE p[Len(p)][2]

\* path.dirname
DirName(p) == IF Len(p) = 0 THEN <<>> ELSE SubSeq(p, 1, Len(p) - 1)

\* path.join(p, SERVERLESS + configExtname)
JoinServerless(p, configExtname) == Append(p, <<SERVERLESS, configExtname>>)

\* path.resolve: against the process working directory
PathResolve(p) == IF IsAbsolute(p) THEN p ELSE REALPATH \o p

HasConfigExtname(p) == ExtName(p) \in Range(CONFIG_EXTNAMES)

\* -------------------------------------------------------------- host calls

\* The variable values the host's populateProperty substitutes in a raw path.
VarSeg == <<"${self:custom.fragments}", "">>
VarValue == <<"frag", "">>

\* variables.populateProperty(rawPath)
PopulateProperty(rawPath) ==
  [i \in 1..Len(rawPath) |-> IF rawPath[i] = VarSeg THEN VarValue ELSE rawPath[i]]

\* The placeholders of the host's variable syntax that occur in documents: a
\* string is a sequence of segments, and a placeholder is one segment of it.
DirnameSeg == <<"${dirname}", "">>
DirnameSpacedSeg == <<"${ dirname }", "">>
Placeholders == {VarSeg, DirnameSeg, DirnameSpacedSeg}

\* the host's cleanVariable: the placeholder without ${ }, and without spaces
CleanVariable(match) ==
  IF match \in {DirnameSeg, DirnameSpacedSeg} THEN DIRNAME ELSE "self:custom.fragments"

\* variables.getMatches(value): the placeholders of a string, in order
RECURSIVE GetMatches(_)
GetMatches(value) ==
  IF value = <<>> THEN <<>>
  ELSE IF Head(value) \in Placeholders
       THEN <<[match |-> Head(value), variable |-> CleanVariable(Head(value))]>>
              \o GetMatches(Tail(value))
       ELSE GetMatches(Tail(value))

\* tryOrUndefined(() => statSync(p)): "file", "dir" or NONE
StatSync(p) ==
  IF PathResolve(p) \in fsDirs THEN "dir"
  ELSE IF PathResolve(p) \in fsFiles THEN "file"
  ELSE NONE

\* Where the module resolver finds a specifier it resolves from basedir.
ModulePath(specifier, basedir) ==
  PathResolve(basedir) \o <<<<"node_modules", "">>>> \o specifier

\* tryOrUndefined(() => resolveModule(specifier, { basedir })): a path, or the
\* empty path when the resolver fails (undefined and "" are both falsy)
ResolveModule(specifier, basedir) ==
  IF <<PathResolve(basedir), specifier>> \in resolvable
  THEN ModulePath(specifier, basedir)
  ELSE <<>>

\* ------------------------------------------------------------- resolution

\* What a resolution remembers of a probe it made: the path probed and the
\* directory a relative path is probed from.
StatProbe(p) == [kind |-> "stat", path |-> p, from |-> REALPATH]
ModuleProbe(p, basedir) == [kind |-> "module", path |-> p, from |-> basedir]

Resolved(p, probes) ==
  [ok |-> TRUE, path |-> p, error |-> NONE, tries |-> <<>>, probes |-> probes]
ResolutionError(msg, p, tries, probes) ==
  [ok |-> FALSE, path |-> p, error |-> msg, tries |-> tries, probes |-> probes]

\* lines 90-102: the loop over CONFIG_EXTNAMES of a directory import, from the
\* i-th extension on
RECURSIVE ProbeDirectory(_, _, _, _)
ProbeDirectory(pathToImport, i, tries, probes) ==
  IF i > Len(CONFIG_EXTNAMES)
  THEN ResolutionError("no serverless config in directory", pathToImport, tries, probes)
  ELSE LET possibleFile == JoinServerless(pathToImport, CONFIG_EXTNAMES[i])
           probed == Append(probes, StatProbe(possibleFile))
       IN IF StatSync(possibleFile) # NONE
          THEN Resolved(possibleFile, probed)
          ELSE ProbeDirectory(pathToImport, i + 1, Append(tries, possibleFile), probed)

\* ProbeModule resolving from the process working directory, whatever basedir
RECURSIVE ProbeModuleFromCwd(_, _, _, _, _)
ProbeModuleFromCwd(pathToImport, basedir, i, tries, probes) ==
  IF i > Len(CONFIG_EXTNAMES)
  THEN ResolutionError("module cannot be resolved", pathToImport, tries, probes)
  ELSE LET possibleFile == JoinServerless(pathToImport, CONFIG_EXTNAMES[i])
           probed == Append(probes, ModuleProbe(possibleFile, REALPATH))
           resolved == ResolveModule(possibleFile, REALPATH)
       IN IF resolved # <<>>
          THEN Resolved(resolved, probed)
          ELSE ProbeModuleFromCwd(pathToImport, basedir, i + 1,
                                  Append(tries, possibleFile), probed)

\* lines 106-119: the loop over CONFIG_EXTNAMES of a module import
RECURSIVE ProbeModule(_, _, _, _, _)
ProbeModule(pathToImport, basedir, i, tries, probes) ==
  IF i > Len(CONFIG_EXTNAMES)
  THEN ResolutionError("module cannot be resolved", pathToImport, tries, probes)
  ELSE LET possibleFile == JoinServerless(pathToImport, CONFIG_EXTNAMES[i])
           probed == Append(probes, ModuleProbe(possibleFile, basedir))
           resolved == ResolveModule(possibleFile, basedir)
       IN IF resolved # <<>>
          THEN Resolved(resolved, probed)
          ELSE ProbeModule(pathToImport, basedir, i + 1, Append(tries, possibleFile), probed)

\* ResolveConfigFile trying the module resolver before the literal file
ResolveConfigFileModuleFirst(pathToImport, basedir) ==
  LET resolved == ResolveModule(pathToImport, basedir)
  IN IF resolved # <<>>
     THEN Resolved(resolved, <<ModuleProbe(pathToImport, basedir)>>)
     ELSE LET probes == <<ModuleProbe(pathToImport, basedir), StatProbe(pathToImport)>>
          IN IF StatSync(pathToImport) # NONE
             THEN Resolved(pathToImport, probes)
             ELSE ResolutionError("the given file doesn't exist", pathToImport, <<>>, probes)

\* lines 74-85: a path with a config extension
ResolveConfigFile(pathToImport, basedir) ==
  IF StatSync(pathToImport) # NONE
  THEN Resolved(pathToImport, <<StatProbe(pathToImport)>>)
  ELSE LET probes == <<StatProbe(pathToImport), ModuleProbe(pathToImport, basedir)>>
           resolved == ResolveModule(pathToImport, basedir)
       IN IF resolved # <<>>
          THEN Resolved(resolved, probes)
          ELSE ResolutionError("the given file doesn't exist", pathToImport, <<>>, probes)

\* ResolvePathToImport without the throw of lines 82-84: a config file that is
\* not found falls through to the directory and module probes
ResolvePathToImportFallThrough(pathToImport, basedir) ==
  IF HasConfigExtname(pathToImport) /\ ResolveConfigFile(pathToImport, basedir).ok
  THEN ResolveConfigFile(pathToImport, basedir)
  ELSE IF StatSync(pathToImport) = "dir"
       THEN ProbeDirectory(pathToImport, 1, <<>>, <<StatProbe(pathToImport)>>)
       ELSE ProbeModule(pathToImport, basedir, 1, <<>>, <<StatProbe(pathToImport)>>)

\* lines 73-119 of resolvePathToImport, run on the populated path
ResolvePathToImport(pathToImport, basedir) ==
  IF HasConfigExtname(pathToImport)
  THEN ResolveConfigFile(pathToImport, basedir)
  ELSE IF StatSync(pathToImport) = "dir"
       THEN ProbeDirectory(pathToImport, 1, <<>>, <<StatProbe(pathToImport)>>)
       ELSE ProbeModule(pathToImport, basedir, 1, <<>>, <<StatProbe(pathToImport)>>)

\* --------------------------------------------------------------- documents

EmptyInputs == "{}"

\* The custom.import field of a document, and the declarations it holds.
Absent == [kind |-> "absent", module |-> <<>>, inputs |-> EmptyInputs, elems |-> <<>>]
Str(rawPath) == [kind |-> "string", module |-> rawPath, inputs |-> EmptyInputs, elems |-> <<>>]
Rec(rawPath, inputs) == [kind |-> "record", module |-> rawPath, inputs |-> inputs, elems |-> <<>>]
Arr(declarations) == [kind |-> "array", module |-> <<>>, inputs |-> EmptyInputs, elems |-> declarations]

\* A function's handler: a string (a path) or not a string.
Handler(p) == [isString |-> TRUE, value |-> p]
NoHandler == [isString |-> FALSE, value |-> <<>>]

\* No other string-valued property.
NoProps == [k \in {} |-> <<>>]

\* A document: plugins (hasPlugins is FALSE when the key is undefined),
\* custom.import, functions, a mapping from function names to handlers, and
\* props, its other string-valued properties by their path.
Doc(hasPlugins, plugins, import, functions) ==
  [hasPlugins |-> hasPlugins, plugins |-> plugins, import |-> import,
   functions |-> functions, props |-> NoProps]
WithProps(doc, props) == [doc EXCEPT !.props = props]
NoFunctions == [n \in {} |-> NoHandler]
EmptyDoc == Doc(FALSE, <<>>, Absent, NoFunctions)

\* service.plugins?.slice() ?? []
PluginsOrEmpty(doc) == IF doc.hasPlugins THEN doc.plugins ELSE <<>>

\* merge(target, source): objects recurse, arrays concatenate, scalars are
\* overwritten by the source's value, a key the source lacks is kept
Merge(target, source) ==
  [hasPlugins |-> target.hasPlugins \/ source.hasPlugins,
   plugins |-> PluginsOrEmpty(target) \o PluginsOrEmpty(source),
   import |-> IF source.import.kind = "absent" THEN target.import
              ELSE IF target.import.kind = "array" /\ source.import.kind = "array"
                   THEN Arr(target.import.elems \o source.import.elems)
                   ELSE source.import,
   functions |-> [n \in DOMAIN target.functions \cup DOMAIN source.functions |->
                    IF n \in DOMAIN source.functions /\
                       (source.functions[n].isString \/ n \notin DOMAIN target.functions)
                    THEN source.functions[n]
                    ELSE target.functions[n]],
   props |-> [k \in DOMAIN target.props \cup DOMAIN source.props |->
                IF k \in DOMAIN source.props THEN source.props[k]
                ELSE target.props[k]]]

\* lodash difference(array, values): the elements of array not in values, in
\* array's order
RECURSIVE Difference(_, _)
Difference(array, values) ==
  IF array = <<>> THEN <<>>
  ELSE IF Head(array) \in Range(values)
       THEN Difference(Tail(array), values)
       ELSE <<Head(array)>> \o Difference(Tail(array), values)

\* lines 52-57
GetImports(config) ==
  LET imports == config.import
  IN IF imports.kind = "array" THEN imports.elems
     ELSE IF imports.kind = "string" /\ imports.module # <<>> THEN <<imports>>
     ELSE <<>>

\* ------------------------------------------------------------------ loading

\* What the file at an absolute path holds: kind is "data" (a document the
\* host reader parses), "function" (a module exporting a callable), "default"
\* (a module whose default export is callable) or "notCallable"; throws says
\* that parsing, or the call, throws.
FileEntry(kind, throws, doc) == [kind |-> kind, throws |-> throws, doc |-> doc]

Loaded(config) == [ok |-> TRUE, config |-> config, cause |-> ""]
LoadFailure(cause) == [ok |-> FALSE, config |-> EmptyDoc, cause |-> cause]

\* importFunction(inputs): the callables of the model return their document
\* with the inputs they were called with under the key inputs
Invoke(entry, inputs) ==
  WithProps(entry.doc,
            [k \in DOMAIN entry.doc.props \cup {"inputs"} |->
               IF k = "inputs" THEN <<<<inputs, "">>>> ELSE entry.doc.props[k]])

\* lines 169-176: the calls made to obtain the fragment, importFunction(inputs)
\* or the host's readFileSync(importPath)
LoadCalls(importPath, inputs) ==
  IF ExtName(importPath) = JS_EXTNAME
  THEN IF PathResolve(importPath) \in DOMAIN docs /\
          docs[PathResolve(importPath)].kind \in {"function", "default"}
       THEN <<[api |-> "importFunction", arg |-> inputs]>>
       ELSE <<>>
  ELSE <<[api |-> "readFileSync", arg |-> ""]>>

\* lines 169-176
Load(importPath, inputs) ==
  LET file == PathResolve(importPath)
  IN IF file \notin DOMAIN docs THEN LoadFailure("cannot read file")
     ELSE IF ExtName(importPath) = JS_EXTNAME
          THEN IF docs[file].kind \notin {"function", "default"}
               THEN LoadFailure("importFunction is not a function")
               ELSE IF docs[file].throws THEN LoadFailure("the function threw")
               ELSE Loaded(Invoke(docs[file], inputs))
          ELSE IF docs[file].throws \/ docs[file].kind # "data"
               THEN LoadFailure("cannot parse file")
               ELSE Loaded(docs[file].doc)

\* ---------------------------------------------------------------- preparing

DotDot == <<"..", "">>

RECURSIVE CommonPrefix(_, _)
CommonPrefix(a, b) ==
  IF a = <<>> \/ b = <<>> \/ Head(a) # Head(b) THEN 0
  ELSE 1 + CommonPrefix(Tail(a), Tail(b))

\* path.relative(from, to)
PathRelative(from, to) ==
  LET f == PathResolve(from)
      t == PathResolve(to)
      k == CommonPrefix(f, t)
  IN [i \in 1..(Len(f) - k) |-> DotDot] \o SubSeq(t, k + 1, Len(t))

\* line 128
ImportDir(importPath) == PathRelative(REALPATH, DirName(importPath))

\* RewriteHandlers joining the handler to path.dirname(importPath) as it is
RewriteHandlersFromImportPath(importPath, config) ==
  [config EXCEPT !.functions =
     [n \in DOMAIN config.functions |->
        IF config.functions[n].isString
        THEN Handler(DirName(importPath) \o config.functions[n].value)
        ELSE config.functions[n]]]

\* lines 126-136: path.join(importDir, func.handler) for the string handlers
RewriteHandlers(importPath, config) ==
  [config EXCEPT !.functions =
     [n \in DOMAIN config.functions |->
        IF config.functions[n].isString
        THEN Handler(ImportDir(importPath) \o config.functions[n].value)
        ELSE config.functions[n]]]

\* String.prototype.replace(match, replacement) with a string pattern: the
\* first occurrence only
RECURSIVE Replace(_, _, _)
Replace(value, match, replacement) ==
  IF value = <<>> THEN <<>>
  ELSE IF Head(value) = match THEN replacement \o Tail(value)
       ELSE <<Head(value)>> \o Replace(Tail(value), match, replacement)

\* lines 148-153: for the dirname matches from the i-th on, set(config,
\* property.path, property.value.replace(match, importDir)); property.value is
\* the value getProperties read, current is what the path holds now
RECURSIVE SetEachMatch(_, _, _, _, _)
SetEachMatch(value, matches, i, importDir, current) ==
  IF i > Len(matches) THEN current
  ELSE SetEachMatch(value, matches, i + 1, importDir,
                    Replace(value, matches[i].match, importDir))

\* lines 141-153 for one string-valued property
SubstituteDirnameIn(value, importDir) ==
  LET matches == GetMatches(value)
      dirnames == SelectSeq(matches, LAMBDA m : m.variable = DIRNAME)
  IN SetEachMatch(value, dirnames, 1, importDir, value)

\* lines 141-153 for the strings of a custom.import declaration
SubstituteDirnameInDeclaration(d, importDir) ==
  [d EXCEPT !.module = SubstituteDirnameIn(d.module, importDir)]

\* lines 138-154: over every string-valued property of the fragment
SubstituteDirname(importPath, config) ==
  LET importDir == ImportDir(importPath)
  IN [config EXCEPT
        !.props = [k \in DOMAIN config.props |->
                     SubstituteDirnameIn(config.props[k], importDir)],
        !.functions = [n \in DOMAIN config.functions |->
                         IF config.functions[n].isString
                         THEN Handler(SubstituteDirnameIn(config.functions[n].value,
                                                          importDir))
                         ELSE config.functions[n]],
        !.import = [SubstituteDirnameInDeclaration(config.import, importDir) EXCEPT
                      !.elems = [i \in 1..Len(config.import.elems) |->
                                   SubstituteDirnameInDeclaration(config.import.elems[i],
                                                                  importDir)]]]

\* lines 122-155
PrepareImportedConfig(importPath, config) ==
  SubstituteDirname(importPath, RewriteHandlers(importPath, config))

\* ------------------------------------------------------------------- tasks

NoError == [type |-> "none", path |-> <<>>, tries |-> <<>>, cause |-> ""]
ResolutionFailure(r) == [type |-> r.error, path |-> r.path, tries |-> r.tries, cause |-> ""]
\* LoadError without the cause's message
LoadErrorWithoutCause(importPath, cause) ==
  [type |-> "Cannot import", path |-> importPath, tries |-> <<>>, cause |-> ""]

\* lines 180-182
LoadError(importPath, cause) ==
  [type |-> "Cannot import", path |-> importPath, tries |-> <<>>, cause |-> cause]

\* lines 158-164 and 69: importConfig up to its first suspension, inside
\* resolvePathToImport at the await of populateService
NewTask(options, basedir, parent) ==
  [options |-> options, basedir |-> basedir, parent |-> parent,
   pc |-> "populateService", pathToImport |-> <<>>, importPath |-> <<>>,
   error |-> NoError, probes |-> <<>>,
   calls |-> <<>>, loaded |-> EmptyDoc, rewritten |-> EmptyDoc,
   config |-> EmptyDoc, steps |-> <<>>]

\* RealOptions passing an empty mapping whatever the declaration
RealOptionsWithoutInputs(options) ==
  [module |-> options.module, inputs |-> EmptyInputs]

\* lines 158-162
RealOptions(options) ==
  IF options.kind = "record"
  THEN [module |-> options.module, inputs |-> options.inputs]
  ELSE [module |-> options.module, inputs |-> EmptyInputs]

RECURSIVE Unique(_)
Unique(seq) ==
  IF seq = <<>> THEN <<>>
  ELSE LET front == Unique(SubSeq(seq, 1, Len(seq) - 1))
       IN IF seq[Len(seq)] \in Range(front) THEN front
          ELSE Append(front, seq[Len(seq)])

\* Dispatch importing each distinct declaration once
DispatchUnique(config, basedir, parent) ==
  LET imports == Unique(GetImports(config))
  IN [i \in 1..Len(imports) |-> NewTask(imports[i], basedir, parent)]

\* Dispatch making the importConfig call of the first declaration only
DispatchFirstOnly(config, basedir, parent) ==
  LET imports == GetImports(config)
  IN [i \in 1..(IF imports = <<>> THEN 0 ELSE 1) |-> NewTask(imports[i], basedir, parent)]

\* lines 60-62: one importConfig call per declaration, in order
Dispatch(config, basedir, parent) ==
  LET imports == GetImports(config)
  IN [i \in 1..Len(imports) |-> NewTask(imports[i], basedir, parent)]

\* lines 59-63: an importConfigs call over config, which made n importConfig
\* calls; Promise.all over n promises is fulfilled at once when n = 0.  scanned
\* is the custom.import field it read.
NewWalker(config, n) ==
  [config |-> config, scanned |-> config.import,
   all |-> IF n = 0 THEN "fulfilled" ELSE "pending", error |-> NoError,
   result |-> "pending"]

\* NestedBasedir handing the project root down instead
NestedBasedirProjectRoot(importPath) == REALPATH

\* line 178: the base directory of the imports a fragment declares
NestedBasedir(importPath) == DirName(importPath)

Children(ts, g) == {c \in 1..Len(ts) : ts[c].parent = g}

\* Promise.all when the promise of a child of walker g is fulfilled
OnFulfilled(ws, ts, g) ==
  IF ws[g].all = "pending" /\ \A c \in Children(ts, g) : ts[c].pc = "done"
  THEN [ws EXCEPT ![g].all = "fulfilled"]
  ELSE ws

\* OnRejected keeping the error of the latest rejection
OnRejectedLastWins(ws, g, error) ==
  [ws EXCEPT ![g].all = "rejected", ![g].error = error]

\* Promise.all when the promise of a child of walker g is rejected
OnRejected(ws, g, error) ==
  IF ws[g].all = "pending"
  THEN [ws EXCEPT ![g].all = "rejected", ![g].error = error]
  ELSE ws

\* --------------------------------------------------------- reconciliation

\* Plugin names the host's resolveServicePlugins yields no instance for.
NullPlugins == {"ghost"}

RECURSIVE FilterBoolean(_)
FilterBoolean(names) ==
  IF names = <<>> THEN <<>>
  ELSE IF Head(names) \in NullPlugins THEN FilterBoolean(Tail(names))
       ELSE <<Head(names)>> \o FilterBoolean(Tail(names))

\* lines 187-199: the call made to the host plugin manager
LoadImportedPlugins(root, snapshot) ==
  LET newPlugins == Difference(PluginsOrEmpty(root), snapshot)
  IN IF hostHasLoad
     THEN [api |-> "loadServicePlugins", names |-> newPlugins, added |-> <<>>]
     ELSE [api |-> "resolveServicePlugins", names |-> newPlugins,
           added |-> FilterBoolean(newPlugins)]

\* ------------------------------------------------------------------ actions

\* lines 40-50: the constructor, to its end
Constructor ==
  /\ phase = "new"
  /\ LET children == Dispatch(service, REALPATH, 0)
         snapshot == PluginsOrEmpty(service)
     IN /\ Len(children) <= MaxTasks
        /\ originalPlugins' = snapshot
        /\ tasks' = children
        /\ walkers' = [g \in {0} |-> NewWalker(service, Len(children))]
        /\ pluginCalls' = Append(pluginCalls, LoadImportedPlugins(service, snapshot))
  /\ phase' = "constructed"
  /\ UNCHANGED <<service, cliLog, stderr, rethrown, mergeLog, settleLog, env>>

\* lines 69-71: populateService has settled; populateProperty is called
PopulateServiceDone(t) ==
  /\ tasks[t].pc = "populateService"
  /\ tasks' = [tasks EXCEPT ![t].pc = "populateProperty",
                            ![t].steps = Append(@, "populateService")]
  /\ UNCHANGED <<phase, service, originalPlugins, walkers, pluginCalls, cliLog,
                 stderr, rethrown, mergeLog, settleLog, env>>

\* lines 71-119: populateProperty has settled; the path is resolved
ResolveStep(t) ==
  /\ tasks[t].pc = "populateProperty"
  /\ LET pathToImport == PopulateProperty(RealOptions(tasks[t].options).module)
         r == ResolvePathToImport(pathToImport, tasks[t].basedir)
     IN tasks' = [tasks EXCEPT
          ![t].pc = IF r.ok THEN "resolved" ELSE "resolveFailed",
          ![t].pathToImport = pathToImport,
          ![t].importPath = IF r.ok THEN r.path ELSE <<>>,
          ![t].error = IF r.ok THEN NoError ELSE ResolutionFailure(r),
          ![t].probes = r.probes,
          ![t].steps = @ \o <<"populateProperty", "resolve">>]
  /\ UNCHANGED <<phase, service, originalPlugins, walkers, pluginCalls, cliLog,
                 stderr, rethrown, mergeLog, settleLog, env>>

\* line 164: the await of a rejected resolvePathToImport throws out of
\* importConfig, whose promise is rejected
ImportReject(t) ==
  /\ tasks[t].pc = "resolveFailed"
  /\ tasks' = [tasks EXCEPT ![t].pc = "failed"]
  /\ walkers' = OnRejected(walkers, tasks[t].parent, tasks[t].error)
  /\ settleLog' = Append(settleLog, t)
  /\ UNCHANGED <<phase, service, originalPlugins, pluginCalls, cliLog, stderr,
                 rethrown, mergeLog, env>>

\* ImportSteps with the merge made first
ImportStepsMergeFirst(loadOk) ==
  IF loadOk
  THEN <<"merge", "log", "load", "rewriteHandlers", "substituteDirname", "dispatch">>
  ELSE <<"merge", "log", "load", "throw">>

\* lines 165-185: the steps importConfig takes from the resolved path on, in
\* the order it takes them, when the load succeeds and when it throws
ImportSteps(loadOk) ==
  IF loadOk
  THEN <<"log", "load", "rewriteHandlers", "substituteDirname", "dispatch", "merge">>
  ELSE <<"log", "load", "throw">>

\* lines 165-185: importConfig from the resolved path to its end
ImportStep(t) ==
  /\ tasks[t].pc = "resolved"
  /\ LET importPath == tasks[t].importPath
         inputs == RealOptions(tasks[t].options).inputs
         l == Load(importPath, inputs)
         rewritten == RewriteHandlers(importPath, l.config)
         config == PrepareImportedConfig(importPath, l.config)
         children == Dispatch(config, NestedBasedir(importPath), t)
         ran == [tasks EXCEPT ![t].calls = @ \o LoadCalls(importPath, inputs),
                              ![t].steps = @ \o ImportSteps(l.ok)]
     IN /\ cliLog' = Append(cliLog, importPath)
        /\ settleLog' = Append(settleLog, t)
        /\ IF l.ok
           THEN /\ Len(tasks) + Len(children) <= MaxTasks
                /\ tasks' = [ran EXCEPT ![t].pc = "done",
                                        ![t].loaded = l.config,
                                        ![t].rewritten = rewritten,
                                        ![t].config = config] \o children
                /\ walkers' = OnFulfilled(
                     [g \in DOMAIN walkers \cup {t} |->
                        IF g = t THEN NewWalker(config, Len(children)) ELSE walkers[g]],
                     tasks', tasks[t].parent)
                /\ service' = Merge(service, config)
                /\ mergeLog' = Append(mergeLog, t)
           ELSE /\ tasks' = [ran EXCEPT
                     ![t].pc = "failed",
                     ![t].error = LoadError(importPath, l.cause)]
                /\ walkers' = OnRejected(walkers, tasks[t].parent, tasks'[t].error)
                /\ UNCHANGED <<service, mergeLog>>
  /\ UNCHANGED <<phase, originalPlugins, pluginCalls, stderr, rethrown, env>>

\* line 63-64: Promise.all has settled; the promise of importConfigs settles
WalkerResume(g) ==
  /\ walkers[g].result = "pending"
  /\ walkers[g].all # "pending"
  /\ walkers' = [walkers EXCEPT ![g].result = walkers[g].all]
  /\ UNCHANGED <<phase, service, originalPlugins, tasks, pluginCalls, cliLog,
                 stderr, rethrown, mergeLog, settleLog, env>>

\* lines 45-48: the .catch handler of the root's importConfigs promise
CatchHandler ==
  /\ phase = "constructed"
  /\ walkers[0].result = "rejected"
  /\ ~rethrown
  /\ stderr' = Append(stderr, walkers[0].error)
  /\ rethrown' = TRUE
  /\ UNCHANGED <<phase, service, originalPlugins, tasks, walkers, pluginCalls,
                 cliLog, mergeLog, settleLog, env>>

Next ==
  \/ Constructor
  \/ \E t \in 1..Len(tasks) : PopulateServiceDone(t)
  \/ \E t \in 1..Len(tasks) : ResolveStep(t)
  \/ \E t \in 1..Len(tasks) : ImportReject(t)
  \/ \E t \in 1..Len(tasks) : ImportStep(t)
  \/ \E g \in DOMAIN walkers : WalkerResume(g)
  \/ CatchHandler

\* ------------------------------------------------------------ initial states

Seg(name) == <<name, "">>

\* Raw import paths, as written in custom.import.
RawFragA == <<VarSeg, Seg("a")>>
RawShared == <<<<"shared", ".yml">>>>
RawMod == <<Seg("mod")>>
RawBroken == <<<<"broken", ".yml">>>>
RawMissing == <<<<"missing", ".yml">>>>
RawLoop == <<<<"loop", ".yml">>>>
RawPing == <<<<"ping", ".yml">>>>
RawPong == <<<<"pong", ".yml">>>>
RawSharedInDir == <<DirnameSeg, <<"shared", ".yml">>>>
RawConf == <<<<"conf", ".js">>>>
RawData == <<<<"data", ".json">>>>
RawWrap == <<Seg("sub"), <<"wrap", ".yml">>>>

\* The files of the project tree.
FragADir == REALPATH \o <<Seg("frag"), Seg("a")>>
FileA == JoinServerless(FragADir, ".yml")
FileShared == REALPATH \o RawShared
FileSharedInA == FragADir \o RawShared
FileModInA == ModulePath(JoinServerless(RawMod, JS_EXTNAME), FragADir)
FileModInRoot == ModulePath(JoinServerless(RawMod, ".yaml"), REALPATH)
FileBroken == REALPATH \o RawBroken
FileLoop == REALPATH \o RawLoop
FilePing == REALPATH \o RawPing
FilePong == REALPATH \o RawPong
FileWrap == REALPATH \o RawWrap

TreeFiles == {FileA, FileShared, FileSharedInA, FileModInA, FileModInRoot,
              FileBroken, FileLoop, FilePing, FilePong}
TreeDirs == {REALPATH, REALPATH \o <<Seg("frag")>>, FragADir}
TreeResolvable == {<<FragADir, JoinServerless(RawMod, JS_EXTNAME)>>,
                   <<REALPATH, JoinServerless(RawMod, ".yaml")>>}

SomeInputs == "{stage: dev}"

\* What the root document may declare.
RootImports ==
  {Absent, Str(<<>>), Arr(<<>>), Str(RawFragA), Rec(RawMod, SomeInputs),
   Arr(<<Str(RawFragA), Str(RawShared)>>),
   Arr(<<Str(RawShared), Str(RawBroken)>>),
   Arr(<<Rec(RawMod, SomeInputs), Str(RawMissing)>>),
   Arr(<<Str(RawShared), Str(RawShared)>>),
   Arr(<<Str(RawBroken), Str(RawMissing)>>),
   Arr(<<Str(RawShared), Str(RawBroken), Str(RawMod)>>),
   Str(RawLoop), Str(RawPing)}

\* What the fragment frag/a/serverless.yml may declare.
FragAImports ==
  {Absent, Str(RawShared), Rec(RawShared, SomeInputs), Str(RawMissing),
   Arr(<<Str(RawMod), Str(RawBroken)>>),
   Arr(<<Str(RawSharedInDir), Str(RawBroken)>>),
   Arr(<<Rec(RawMod, SomeInputs), Str(RawMod), Rec(RawShared, SomeInputs)>>)}

\* What frag/a/node_modules/mod/serverless.js may export.
ModExports == {"function", "default", "notCallable", "throws"}

RootPlugins == {<<>>, <<"p0">>, <<"p0", "p1">>}
FragAPlugins == {<<>>, <<"p1", "pa">>}
SharedPlugins == {<<>>, <<"pa">>}

HandlerSrc == <<Seg("src"), <<"handler", ".func">>>>

\* The other string-valued properties of frag/a/serverless.yml and shared.yml.
PropsA ==
  [k \in {"one", "same", "differ", "mixed", "plain", "stage"} |->
     CASE k = "one" -> <<DirnameSeg, Seg("out")>>
       [] k = "same" -> <<DirnameSeg, Seg("x:"), DirnameSeg, Seg("y")>>
       [] k = "differ" -> <<DirnameSeg, Seg("x:"), DirnameSpacedSeg>>
       [] k = "mixed" -> <<VarSeg, DirnameSeg>>
       [] k = "plain" -> <<Seg("dev")>>
       [] OTHER -> <<Seg("fromA")>>]
PropsShared == [k \in {"stage"} |-> <<Seg("fromShared")>>]

TreeDocs(importA, pluginsA, pluginsS, exportM) ==
  [f \in TreeFiles |->
     IF f = FileA
     THEN FileEntry("data", FALSE,
            WithProps(Doc(pluginsA # <<>>, pluginsA, importA,
                          [n \in {"hello", "timer"} |->
                             IF n = "hello" THEN Handler(HandlerSrc) ELSE NoHandler]),
                      PropsA))
     ELSE IF f = FileShared
     THEN FileEntry("data", FALSE,
            WithProps(Doc(pluginsS # <<>>, pluginsS, Absent, NoFunctions), PropsShared))
     ELSE IF f = FileSharedInA
     THEN FileEntry("data", FALSE, Doc(TRUE, <<"local">>, Absent, NoFunctions))
     ELSE IF f = FileModInA
     THEN FileEntry(IF exportM = "throws" THEN "function" ELSE exportM,
                    exportM = "throws",
                    Doc(TRUE, <<"ghost", "pm">>, Absent,
                        [n \in {"job"} |-> Handler(HandlerSrc)]))
     ELSE IF f = FileModInRoot
     THEN FileEntry("data", FALSE, Doc(TRUE, <<"pm">>, Absent, NoFunctions))
     ELSE IF f = FileBroken
     THEN FileEntry("data", TRUE, EmptyDoc)
     ELSE IF f = FilePing
     THEN FileEntry("data", FALSE, Doc(FALSE, <<>>, Str(RawPong), NoFunctions))
     ELSE IF f = FilePong
     THEN FileEntry("data", FALSE, Doc(FALSE, <<>>, Str(RawPing), NoFunctions))
     ELSE FileEntry("data", FALSE, Doc(FALSE, <<>>, Str(RawLoop), NoFunctions))]

InitMachine ==
  /\ phase = "new"
  /\ originalPlugins = <<>>
  /\ tasks = <<>>
  /\ walkers = <<>>
  /\ pluginCalls = <<>>
  /\ cliLog = <<>>
  /\ stderr = <<>>
  /\ rethrown = FALSE
  /\ mergeLog = <<>>
  /\ settleLog = <<>>

\* A project tree with nested imports, the documents' plugins and import
\* declarations drawn from small sets.
InitTree ==
  /\ InitMachine
  /\ fsFiles = TreeFiles
  /\ fsDirs = TreeDirs
  /\ resolvable = TreeResolvable
  /\ \E import \in RootImports, plugins \in RootPlugins, importA \in FragAImports,
        pluginsA \in FragAPlugins, pluginsS \in SharedPlugins, exportM \in ModExports :
       \* a file no import reaches is not varied
       /\ import \in {Str(RawFragA), Arr(<<Str(RawFragA), Str(RawShared)>>)}
            \/ (importA = Absent /\ pluginsA = <<>>)
       /\ (import \in {Str(RawFragA), Arr(<<Str(RawFragA), Str(RawShared)>>)}
            /\ importA.kind = "array")
            \/ exportM = "function"
       /\ service = Doc(plugins # <<>>, plugins, import, NoFunctions)
       /\ docs = TreeDocs(importA, pluginsA, pluginsS, exportM)
  /\ hostHasLoad \in BOOLEAN

\* One import, declared by the root or by the fragment sub/wrap.yml, in every
\* file system and under every module resolver that its resolution can tell
\* apart.
ResolveRawPaths == {RawShared, RawConf, RawFragA, RawData}
WrapDir == REALPATH \o <<Seg("sub")>>
Candidates(pathToImport) ==
  {JoinServerless(pathToImport, CONFIG_EXTNAMES[i]) : i \in 1..Len(CONFIG_EXTNAMES)}

InitResolve ==
  /\ InitMachine
  /\ hostHasLoad = TRUE
  /\ \E raw \in ResolveRawPaths, wrapped \in BOOLEAN, kind \in {NONE, "file", "dir"},
        others \in BOOLEAN :
       LET pathToImport == PopulateProperty(raw)
           basedir == IF wrapped THEN WrapDir ELSE REALPATH
           other == IF wrapped THEN REALPATH ELSE WrapDir
       IN \E existing \in SUBSET Candidates(pathToImport),
             modules \in SUBSET (Candidates(pathToImport) \cup {pathToImport}) :
            /\ service = Doc(FALSE, <<>>, IF wrapped THEN Str(RawWrap) ELSE Str(raw),
                             NoFunctions)
            /\ resolvable = {<<basedir, m>> : m \in modules} \cup
                 (IF others
                  THEN {<<other, m>> : m \in Candidates(pathToImport) \cup {pathToImport}}
                  ELSE {})
            /\ fsDirs = {REALPATH, WrapDir} \cup
                 (IF kind = "dir" THEN {REALPATH \o pathToImport} ELSE {})
            /\ fsFiles = {FileWrap} \cup {REALPATH \o c : c \in existing} \cup
                 {ModulePath(pair[2], pair[1]) : pair \in resolvable} \cup
                 (IF kind = "file" THEN {REALPATH \o pathToImport} ELSE {})
            /\ docs = [f \in fsFiles |->
                 IF f = FileWrap
                 THEN FileEntry("data", FALSE, Doc(FALSE, <<>>, Str(raw), NoFunctions))
                 ELSE IF ExtName(f) = JS_EXTNAME
                      THEN FileEntry("function", FALSE, EmptyDoc)
                      ELSE FileEntry("data", FALSE, EmptyDoc)]

Init == InitTree \/ InitResolve

Spec == Init /\ [][Next]_vars

\* ------------------------------------------------------------------ claims

TaskIds == 1..Len(tasks)
Merged(t) == tasks[t].pc = "done"
Failed(t) == tasks[t].pc = "failed"
Nested(t) == tasks[t].parent # 0
\* the resolution of task t has run / has returned a path
ResolutionRan(t) == tasks[t].probes # <<>>
ResolutionOk(t) == tasks[t].importPath # <<>>

\* Nothing is left to run.
Quiescent ==
  /\ phase = "constructed"
  /\ \A t \in TaskIds : Merged(t) \/ Failed(t)
  /\ \A g \in DOMAIN walkers : walkers[g].result # "pending"
  /\ walkers[0].result = "rejected" => rethrown

NoDuplicates(seq) == \A i, j \in 1..Len(seq) : seq[i] = seq[j] => i = j

\* C1: the host plugin manager is called at most once, and when it has been
\* called every import of the import tree has merged its fragment into the
\* root; the snapshot is the root's plugin list before any merge.
C1_ReconcileOnceAfterAllMerges ==
  /\ Len(pluginCalls) <= 1
  /\ pluginCalls # <<>> => \A t \in TaskIds : Merged(t)
  /\ (phase = "constructed" /\ mergeLog = <<>>) =>
       originalPlugins = PluginsOrEmpty(service)

\* C2: once every import has merged, the names handed to the host plugin
\* manager are the root's final plugin list minus the snapshot, in the final
\* list's order, and no name twice.
C2_PluginsHandedAreFinalMinusSnapshot ==
  (Quiescent /\ \A t \in TaskIds : Merged(t)) =>
    /\ Len(pluginCalls) = 1
    /\ pluginCalls[1].names = Difference(PluginsOrEmpty(service), originalPlugins)
    /\ NoDuplicates(pluginCalls[1].names)

\* C3: the merge of a fragment never precedes the merge of an import the
\* fragment declares.
C3_NestedMergeBeforeParentMerge ==
  \A c \in TaskIds : (Nested(c) /\ Merged(tasks[c].parent)) => Merged(c)

\* C4: when nothing is left to run and an import at any depth has failed, the
\* root's import chain was rejected, the error was written to the error stream
\* and re-raised.
C4_EveryFailureReachesTopLevel ==
  (Quiescent /\ \E t \in TaskIds : Failed(t)) =>
    /\ walkers[0].result = "rejected"
    /\ rethrown
    /\ stderr # <<>>

\* The declarations a custom.import field holds, as C6 reads it.
Declared(field) ==
  IF field.kind = "array" THEN field.elems
  ELSE IF field.kind = "record" THEN <<field>>
  ELSE IF field.kind = "string" /\ field.module # <<>> THEN <<field>>
  ELSE <<>>

\* the declarations of the importConfig calls walker g made, in call order
RECURSIVE DispatchedFrom(_, _)
DispatchedFrom(g, t) ==
  IF t > Len(tasks) THEN <<>>
  ELSE (IF tasks[t].parent = g THEN <<tasks[t].options>> ELSE <<>>)
       \o DispatchedFrom(g, t + 1)

\* C6: the imports dispatched for a document are exactly the declarations its
\* custom.import field holds: one for a single string or record, one per
\* element of a sequence in order, none when the field is missing or empty.
C6_DispatchedAreTheDeclarations ==
  \A g \in DOMAIN walkers : DispatchedFrom(g, 1) = Declared(walkers[g].scanned)

ParentPath(t) == tasks[tasks[t].parent].importPath
LastProbe(t) == tasks[t].probes[Len(tasks[t].probes)]
IsPrefix(a, b) == Len(a) <= Len(b) /\ SubSeq(b, 1, Len(a)) = a

\* C5 as claimed: every probe the resolution of an import declared inside a
\* fragment makes is made from that fragment's own directory, never from the
\* process working directory.
C5_NestedProbesFromFragmentDir ==
  \A t \in TaskIds : Nested(t) =>
    \A i \in 1..Len(tasks[t].probes) :
      PathResolve(tasks[t].probes[i].from) = PathResolve(DirName(ParentPath(t)))

\* C5 as amended: an import declared inside a fragment gets the fragment's own
\* directory as base directory and every module resolution is made from it,
\* returning what the resolver finds from there; every literal file and
\* directory probe is made from the process working directory, and a path
\* found that way is the probed path, relative to the working directory.
C5_NestedModuleProbesFromFragmentDir ==
  \A t \in TaskIds : Nested(t) =>
    /\ tasks[t].basedir = DirName(ParentPath(t))
    /\ \A i \in 1..Len(tasks[t].probes) :
         LET probe == tasks[t].probes[i]
         IN IF probe.kind = "module"
            THEN probe.from = DirName(ParentPath(t))
            ELSE probe.from = REALPATH
    /\ ResolutionOk(t) =>
         IF LastProbe(t).kind = "module"
         THEN tasks[t].importPath =
                ModulePath(LastProbe(t).path, DirName(ParentPath(t)))
         ELSE /\ tasks[t].importPath = LastProbe(t).path
              /\ IsPrefix(tasks[t].pathToImport, tasks[t].importPath)
              /\ PathResolve(tasks[t].importPath) \in fsFiles \cup fsDirs

\* C5 witness: an import declared in a fragment outside the working directory
\* was resolved as a module from the fragment's directory, after a literal
\* probe from the working directory.
C5_Witness ==
  \E t \in TaskIds :
    /\ Nested(t) /\ ResolutionOk(t)
    /\ PathResolve(DirName(ParentPath(t))) # REALPATH
    /\ tasks[t].probes[1].kind = "stat"
    /\ LastProbe(t).kind = "module"

\* the extension order the claims state
ClaimedOrder == <<".yml", ".yaml", ".js">>
ClaimedCandidates(pathToImport) ==
  [i \in 1..3 |-> Append(pathToImport, <<"serverless", ClaimedOrder[i]>>)]
First(S) == CHOOSE i \in S : \A j \in S : i <= j
NoModuleProbe(t) ==
  \A i \in 1..Len(tasks[t].probes) : tasks[t].probes[i].kind # "module"

\* C7: a path with a recognized extension that exists as a literal file
\* resolves to that literal path, and no module resolution is attempted.
C7_LiteralConfigFileWins ==
  \A t \in TaskIds :
    (/\ ResolutionRan(t)
     /\ ExtName(tasks[t].pathToImport) \in Range(ClaimedOrder)
     /\ StatSync(tasks[t].pathToImport) = "file") =>
      /\ tasks[t].importPath = tasks[t].pathToImport
      /\ NoModuleProbe(t)

\* C7 witness: such a path was resolved to itself although the module resolver
\* resolves it from the base directory.
C7_Witness ==
  \E t \in TaskIds :
    /\ ResolutionRan(t)
    /\ ExtName(tasks[t].pathToImport) \in Range(ClaimedOrder)
    /\ StatSync(tasks[t].pathToImport) = "file"
    /\ ResolveModule(tasks[t].pathToImport, tasks[t].basedir) # <<>>
    /\ tasks[t].importPath = tasks[t].pathToImport

\* C8: a path with a recognized extension that does not exist literally
\* resolves to what the module resolver returns from the base directory; when
\* the resolver fails too, resolution fails with "doesn't exist" having probed
\* nothing but the path itself.
C8_ConfigFileModuleOrError ==
  \A t \in TaskIds :
    (/\ ResolutionRan(t)
     /\ ExtName(tasks[t].pathToImport) \in Range(ClaimedOrder)
     /\ StatSync(tasks[t].pathToImport) = NONE) =>
      IF ResolveModule(tasks[t].pathToImport, tasks[t].basedir) # <<>>
      THEN tasks[t].importPath =
             ResolveModule(tasks[t].pathToImport, tasks[t].basedir)
      ELSE /\ ~ResolutionOk(t)
           /\ tasks[t].pc \in {"resolveFailed", "failed"}
           /\ tasks[t].error.type = "the given file doesn't exist"
           /\ \A i \in 1..Len(tasks[t].probes) :
                tasks[t].probes[i].path = tasks[t].pathToImport

\* C8 witness: the resolution of such a path failed although serverless.<ext>
\* under it exists and is resolvable as a module from the base directory.
C8_Witness ==
  \E t \in TaskIds :
    /\ ResolutionRan(t)
    /\ ExtName(tasks[t].pathToImport) \in Range(ClaimedOrder)
    /\ StatSync(tasks[t].pathToImport) = NONE
    /\ tasks[t].error.type = "the given file doesn't exist"
    /\ \E i \in 1..3 :
         /\ ResolveModule(ClaimedCandidates(tasks[t].pathToImport)[i],
                          tasks[t].basedir) # <<>>
         /\ StatSync(ClaimedCandidates(tasks[t].pathToImport)[i]) # NONE

\* C9: an existing directory without a recognized extension resolves to the
\* first of <dir>/serverless.yml, .yaml, .js that exists; when none exists the
\* error lists the three in that order; no module resolution is attempted.
C9_DirectoryProbesInOrder ==
  \A t \in TaskIds :
    (/\ ResolutionRan(t)
     /\ ExtName(tasks[t].pathToImport) \notin Range(ClaimedOrder)
     /\ StatSync(tasks[t].pathToImport) = "dir") =>
      LET c == ClaimedCandidates(tasks[t].pathToImport)
          found == {i \in 1..3 : StatSync(c[i]) # NONE}
      IN /\ NoModuleProbe(t)
         /\ IF found # {}
            THEN tasks[t].importPath = c[First(found)]
            ELSE /\ ~ResolutionOk(t)
                 /\ tasks[t].error.type = "no serverless config in directory"
                 /\ tasks[t].error.tries = c

\* C9 witness: of a directory's three candidates the first is missing and the
\* two others exist, and the second was returned.
C9_Witness ==
  \E t \in TaskIds :
    LET c == ClaimedCandidates(tasks[t].pathToImport)
    IN /\ ResolutionRan(t)
       /\ StatSync(tasks[t].pathToImport) = "dir"
       /\ StatSync(c[1]) = NONE /\ StatSync(c[2]) # NONE /\ StatSync(c[3]) # NONE
       /\ tasks[t].importPath = c[2]

\* C10: a path without a recognized extension that is no existing directory
\* resolves to the first of <path>/serverless.yml, .yaml, .js the module
\* resolver resolves from the base directory, the candidates attempted in that
\* order; when none resolves the error lists the three in that order.
C10_ModuleProbesInOrder ==
  \A t \in TaskIds :
    (/\ ResolutionRan(t)
     /\ ExtName(tasks[t].pathToImport) \notin Range(ClaimedOrder)
     /\ StatSync(tasks[t].pathToImport) # "dir") =>
      LET c == ClaimedCandidates(tasks[t].pathToImport)
          found == {i \in 1..3 : ResolveModule(c[i], tasks[t].basedir) # <<>>}
          attempted == IF found # {} THEN First(found) ELSE 3
      IN /\ tasks[t].probes =
              <<StatProbe(tasks[t].pathToImport)>> \o
              [i \in 1..attempted |-> ModuleProbe(c[i], tasks[t].basedir)]
         /\ IF found # {}
            THEN tasks[t].importPath =
                   ResolveModule(c[First(found)], tasks[t].basedir)
            ELSE /\ ~ResolutionOk(t)
                 /\ tasks[t].error.type = "module cannot be resolved"
                 /\ tasks[t].error.tries = c

\* C10 witness: from a base directory other than the working directory the
\* first candidate does not resolve and the second does, and it was returned,
\* while from the working directory the first resolves.
C10_Witness ==
  \E t \in TaskIds :
    LET c == ClaimedCandidates(tasks[t].pathToImport)
    IN /\ ResolutionRan(t)
       /\ ExtName(tasks[t].pathToImport) \notin Range(ClaimedOrder)
       /\ StatSync(tasks[t].pathToImport) # "dir"
       /\ PathResolve(tasks[t].basedir) # REALPATH
       /\ ResolveModule(c[1], tasks[t].basedir) = <<>>
       /\ ResolveModule(c[1], REALPATH) # <<>>
       /\ ResolveModule(c[2], tasks[t].basedir) # <<>>
       /\ tasks[t].importPath = ResolveModule(c[2], tasks[t].basedir)


\* ------------------------------------------------- dirname substitution (C11)

\* A string with every placeholder whose variable name is dirname replaced by
\* importDir, and every other segment kept.
RECURSIVE ClaimedSubstitution(_, _)
ClaimedSubstitution(value, importDir) ==
  IF value = <<>> THEN <<>>
  ELSE IF Head(value) \in {DirnameSeg, DirnameSpacedSeg}
       THEN importDir \o ClaimedSubstitution(Tail(value), importDir)
       ELSE <<Head(value)>> \o ClaimedSubstitution(Tail(value), importDir)

DirnameCount(value) ==
  Cardinality({i \in 1..Len(value) : value[i] \in {DirnameSeg, DirnameSpacedSeg}})

\* C11: after the dirname substitution, every string-valued property of a
\* loaded fragment has each of its dirname placeholders, however many the
\* string holds and whatever their matched text, replaced by the fragment's
\* directory relative to the project root, and its other placeholders intact.
C11_EveryDirnamePlaceholderReplaced ==
  \A t \in TaskIds :
    Merged(t) =>
      \A k \in DOMAIN tasks[t].rewritten.props :
        tasks[t].config.props[k] =
          ClaimedSubstitution(tasks[t].rewritten.props[k], ImportDir(tasks[t].importPath))

\* The same for the strings that hold at most one dirname placeholder.
C11_SingleDirnamePlaceholderReplaced ==
  \A t \in TaskIds :
    Merged(t) =>
      \A k \in DOMAIN tasks[t].rewritten.props :
        DirnameCount(tasks[t].rewritten.props[k]) <= 1 =>
          tasks[t].config.props[k] =
            ClaimedSubstitution(tasks[t].rewritten.props[k], ImportDir(tasks[t].importPath))
\* --------------------------------------------------- handler rewriting (C12)

\* C12: the handler step rewrites the handler of every functions entry whose
\* handler is a string to the join of the fragment's directory relative to
\* the project root and the handler, and leaves the entries whose handler is
\* not a string, and every other field of the fragment, as loaded.
C12_HandlersRelativeToProjectRoot ==
  \A t \in TaskIds :
    Merged(t) =>
      LET before == tasks[t].loaded
          after == tasks[t].rewritten
          importDir == PathRelative(REALPATH, DirName(tasks[t].importPath))
      IN /\ DOMAIN after.functions = DOMAIN before.functions
         /\ \A n \in DOMAIN before.functions :
              IF before.functions[n].isString
              THEN after.functions[n] = Handler(importDir \o before.functions[n].value)
              ELSE after.functions[n] = before.functions[n]
         /\ after.hasPlugins = before.hasPlugins
         /\ after.plugins = before.plugins
         /\ after.import = before.import
         /\ after.props = before.props

\* frag/a/serverless.yml and the module's serverless.js, found through an
\* absolute path, are both merged with their handlers rewritten
C12_Witness ==
  \E t, u \in TaskIds :
    /\ Merged(t) /\ Merged(u)
    /\ tasks[t].importPath = <<Seg("frag"), Seg("a"), <<SERVERLESS, ".yml">>>>
    /\ DOMAIN tasks[t].loaded.functions = {"hello", "timer"}
    /\ tasks[t].loaded.functions["hello"] = Handler(HandlerSrc)
    /\ tasks[t].config.functions["hello"] =
         Handler(<<Seg("frag"), Seg("a"), Seg("src"), <<"handler", ".func">>>>)
    /\ tasks[t].config.functions["timer"] = NoHandler
    /\ IsAbsolute(tasks[u].importPath)
    /\ DOMAIN tasks[u].loaded.functions = {"job"}
    /\ tasks[u].config.functions["job"] =
         Handler(<<Seg("frag"), Seg("a"), Seg("node_modules"), Seg("mod")>> \o HandlerSrc)
\* ------------------------------------------------------------ loading (C13)

\* The inputs a declaration gives: those of a record, an empty mapping for a
\* bare string.
DeclaredInputs(t) ==
  IF tasks[t].options.kind = "record" THEN tasks[t].options.inputs ELSE EmptyInputs

\* C13: a fragment whose resolved path ends in .js is what the file's exported
\* callable (the export itself or its default export) returns when called,
\* exactly once, with the declaration's inputs; a fragment with another
\* extension is what the host's file reader yields for the path, whatever the
\* inputs; in both cases that document, prepared, is what is merged.
C13_FragmentFromCallableOrReader ==
  \A t \in TaskIds :
    Merged(t) =>
      LET entry == docs[PathResolve(tasks[t].importPath)]
      IN /\ IF ExtName(tasks[t].importPath) = ".js"
            THEN /\ entry.kind \in {"function", "default"}
                 /\ tasks[t].calls = <<[api |-> "importFunction", arg |-> DeclaredInputs(t)]>>
                 /\ tasks[t].loaded = Invoke(entry, DeclaredInputs(t))
            ELSE /\ tasks[t].calls = <<[api |-> "readFileSync", arg |-> ""]>>
                 /\ tasks[t].loaded = entry.doc
         /\ tasks[t].config = PrepareImportedConfig(tasks[t].importPath, tasks[t].loaded)

\* the same .js file imported with inputs and as a bare string, beside a .yml
\* file imported with inputs
C13_Witness ==
  \E t, u, v \in TaskIds :
    /\ Merged(t) /\ Merged(u) /\ Merged(v)
    /\ ExtName(tasks[t].importPath) = ".js" /\ tasks[u].importPath = tasks[t].importPath
    /\ tasks[t].options = Rec(RawMod, SomeInputs)
    /\ tasks[t].config.props["inputs"] = <<Seg(SomeInputs)>>
    /\ tasks[u].options = Str(RawMod)
    /\ tasks[u].config.props["inputs"] = <<Seg(EmptyInputs)>>
    /\ ExtName(tasks[v].importPath) = ".yml"
    /\ tasks[v].options = Rec(RawShared, SomeInputs)
    /\ tasks[v].config.props = PropsShared
\* ------------------------------------------------------ load failures (C14)

\* Why loading the file at a resolved path fails: the message of the cause,
\* or "" when it does not fail.
ClaimedCause(importPath) ==
  LET file == PathResolve(importPath)
  IN IF file \notin DOMAIN docs THEN "cannot read file"
     ELSE IF ExtName(importPath) = ".js"
          THEN IF docs[file].kind \notin {"function", "default"}
               THEN "importFunction is not a function"
               ELSE IF docs[file].throws THEN "the function threw" ELSE ""
          ELSE IF docs[file].throws THEN "cannot parse file" ELSE ""

\* C14: when loading the file at the resolved path fails (the reader cannot
\* parse it, the export is not callable, or the call throws), the import step
\* fails with a LoadError that names the resolved path and carries the
\* cause's message, dispatches nothing and leaves the root document as it
\* was; a failed import is never merged.
C14_LoadFailureLeavesRoot ==
  /\ [](\A t \in TaskIds : Failed(t) => t \notin Range(mergeLog))
  /\ [][\A t \in TaskIds :
          (tasks[t].pc = "resolved" /\ tasks'[t].pc # "resolved"
             /\ ClaimedCause(tasks[t].importPath) # "") =>
            /\ tasks'[t].pc = "failed"
            /\ tasks'[t].error = [type |-> "Cannot import", path |-> tasks[t].importPath,
                                  tries |-> <<>>,
                                  cause |-> ClaimedCause(tasks[t].importPath)]
            /\ service' = service
            /\ mergeLog' = mergeLog
            /\ Len(tasks') = Len(tasks)]_vars

\* a module whose export is not callable and a file that does not parse have
\* both failed to load, the fragment that declares them being the whole root
C14_Witness ==
  \E t, u \in TaskIds :
    /\ Failed(t) /\ Failed(u)
    /\ tasks[t].error.type = "Cannot import" /\ tasks[u].error.type = "Cannot import"
    /\ tasks[t].error.path = tasks[t].importPath /\ tasks[t].importPath # <<>>
    /\ tasks[t].error.cause = "importFunction is not a function"
    /\ tasks[u].error.cause = "cannot parse file"
    /\ mergeLog = <<1>>
    /\ service = Merge(walkers[0].config, tasks[1].config)
\* ------------------------------------------------------ wholesale merge (C15)

\* merge applied to the root for each of the fragments, in order
RECURSIVE MergeAll(_, _)
MergeAll(root, fragments) ==
  IF fragments = <<>> THEN root
  ELSE MergeAll(Merge(root, Head(fragments)), Tail(fragments))

\* The fragments merged so far, as they were when merged, in merge order.
MergedFragments == [i \in 1..Len(mergeLog) |-> tasks[mergeLog[i]].config]

\* The root document is the document the plugin was constructed on with the
\* merged fragments folded in one after the other, each one whole.
RootIsFoldOfMergedFragments ==
  /\ phase = "new" => mergeLog = <<>>
  /\ phase = "constructed" => service = MergeAll(walkers[0].config, MergedFragments)
  /\ \A i, j \in 1..Len(mergeLog) : mergeLog[i] = mergeLog[j] => i = j
  /\ \A t \in TaskIds : Merged(t) <=> t \in Range(mergeLog)

\* A declaration with every dirname placeholder of its path substituted.
ClaimedDeclaration(d, importDir) ==
  [d EXCEPT !.module = ClaimedSubstitution(d.module, importDir)]

\* The fully prepared form of a loaded fragment: handlers rewritten and every
\* dirname placeholder substituted.
ClaimedPrepared(importPath, doc) ==
  LET importDir == PathRelative(REALPATH, DirName(importPath))
  IN [doc EXCEPT
        !.functions = [n \in DOMAIN doc.functions |->
                         IF doc.functions[n].isString
                         THEN Handler(ClaimedSubstitution(importDir \o doc.functions[n].value,
                                                          importDir))
                         ELSE doc.functions[n]],
        !.props = [k \in DOMAIN doc.props |-> ClaimedSubstitution(doc.props[k], importDir)],
        !.import = [ClaimedDeclaration(doc.import, importDir) EXCEPT
                      !.elems = [i \in 1..Len(doc.import.elems) |->
                                   ClaimedDeclaration(doc.import.elems[i], importDir)]]]

\* C15: in every reachable state the root document holds, of each fragment,
\* either nothing or the whole fragment in its fully prepared form (handlers
\* rewritten, dirname placeholders substituted): the root is the initial
\* document with whole prepared fragments merged in, one at a time.
C15_RootHoldsWholePreparedFragments ==
  /\ RootIsFoldOfMergedFragments
  /\ \A t \in TaskIds :
       Merged(t) => tasks[t].config = ClaimedPrepared(tasks[t].importPath, tasks[t].loaded)
\* ----------------------------------------------- order within an import (C16)

ClaimedStepOrder ==
  <<"populateService", "populateProperty", "resolve", "log", "load",
    "rewriteHandlers", "substituteDirname", "dispatch", "merge">>

StepsTaken(t) == SelectSeq(tasks[t].steps, LAMBDA step : step # "throw")

\* C16: the steps of one import happen in the order path-phase variable
\* substitution, path resolution, logging of the resolved path, load, handler
\* rewriting, dirname substitution, dispatch of the nested imports with the
\* fragment's directory as base, merge; each step works on what the steps
\* before it left, and a step that throws ends the import.
C16_StepsOfAnImportInOrder ==
  \A t \in TaskIds :
    /\ IsPrefix(StepsTaken(t), ClaimedStepOrder)
    /\ "throw" \in Range(tasks[t].steps) =>
         Failed(t) /\ tasks[t].steps[Len(tasks[t].steps)] = "throw"
    /\ Merged(t) <=> StepsTaken(t) = ClaimedStepOrder
    /\ "resolve" \in Range(tasks[t].steps) =>
         /\ tasks[t].pathToImport = PopulateProperty(tasks[t].options.module)
         /\ tasks[t].probes[1].path = tasks[t].pathToImport
    /\ "log" \in Range(tasks[t].steps) =>
         ResolutionOk(t) /\ tasks[t].importPath \in Range(cliLog)
    /\ Merged(t) =>
         /\ tasks[t].rewritten.functions =
              ClaimedPrepared(tasks[t].importPath,
                              [tasks[t].loaded EXCEPT !.props = NoProps]).functions
         /\ DispatchedFrom(t, 1) = GetImports(tasks[t].config)
         /\ \A c \in Children(tasks, t) : tasks[c].basedir = DirName(tasks[t].importPath)
         /\ t \in Range(mergeLog)

\* frag/a/serverless.yml has gone through every step, its nested import was
\* dispatched with the dirname placeholder of its path already substituted,
\* and a sibling stopped at a load that threw, after it was logged
C16_Witness ==
  \E t, c, u \in TaskIds :
    /\ Merged(t) /\ tasks[t].steps = ClaimedStepOrder
    /\ tasks[t].loaded.import = Arr(<<Str(RawSharedInDir), Str(RawBroken)>>)
    /\ tasks[c].parent = t
    /\ tasks[c].options.module = <<Seg("frag"), Seg("a"), <<"shared", ".yml">>>>
    /\ tasks[c].basedir = <<Seg("frag"), Seg("a")>>
    /\ Merged(c)
    /\ Failed(u)
    /\ tasks[u].steps = <<"populateService", "populateProperty", "resolve", "log",
                          "load", "throw">>
\* ------------------------------------------------------------ siblings (C17)

\* The positions in the merge log of the fragments that set property k.
Setters(k) == {i \in 1..Len(mergeLog) : k \in DOMAIN tasks[mergeLog[i]].config.props}

Max(S) == CHOOSE x \in S : \A y \in S : y <= x

Position(t) == CHOOSE i \in 1..Len(mergeLog) : mergeLog[i] = t

\* C17: the imports a document declares in a list are all dispatched by the
\* time the document has been scanned, hence before any of them merges, and
\* the fragments are folded into the root in the order the imports complete:
\* a scalar property holds the value of the fragment merged last among those
\* that set it, whichever was declared first.
C17_SiblingsFoldInCompletionOrder ==
  /\ \A g \in DOMAIN walkers :
       walkers[g].scanned.kind = "array" =>
         DispatchedFrom(g, 1) = walkers[g].scanned.elems
  /\ phase = "constructed" => service = MergeAll(walkers[0].config, MergedFragments)
  /\ \A k \in {"stage", "inputs"} :
       Setters(k) # {} =>
         service.props[k] = tasks[mergeLog[Max(Setters(k))]].config.props[k]

\* two siblings set stage, and the one declared first was merged last: its
\* value is the root's
C17_Witness ==
  \E t, u \in TaskIds :
    /\ t < u /\ tasks[t].parent = tasks[u].parent
    /\ Merged(t) /\ Merged(u) /\ Quiescent
    /\ Position(u) < Position(t)
    /\ "stage" \in DOMAIN tasks[t].config.props \cap DOMAIN tasks[u].config.props
    /\ tasks[t].config.props["stage"] = <<Seg("fromA")>>
    /\ tasks[u].config.props["stage"] = <<Seg("fromShared")>>
    /\ service.props["stage"] = <<Seg("fromA")>>

\* the same two siblings merged in declaration order: the value of the one
\* declared last is the root's
C17_WitnessDeclarationOrder ==
  \E t, u \in TaskIds :
    /\ t < u /\ tasks[t].parent = tasks[u].parent
    /\ Merged(t) /\ Merged(u) /\ Quiescent
    /\ Position(t) < Position(u)
    /\ "stage" \in DOMAIN tasks[t].config.props \cap DOMAIN tasks[u].config.props
    /\ tasks[t].config.props["stage"] = <<Seg("fromA")>>
    /\ tasks[u].config.props["stage"] = <<Seg("fromShared")>>
    /\ service.props["stage"] = <<Seg("fromShared")>>
\* -------------------------------------------------- a failing sibling (C18)

Settled(t) == \E i \in 1..Len(settleLog) : settleLog[i] = t
SettledAt(t) == CHOOSE i \in 1..Len(settleLog) : settleLog[i] = t

FailedChildren(g) == {c \in Children(tasks, g) : Failed(c)}

\* The child of walker g that failed first.
FirstFailure(g) ==
  CHOOSE c \in FailedChildren(g) :
    \A d \in FailedChildren(g) : SettledAt(c) <= SettledAt(d)

\* C18: a walker's Promise.all is rejected as soon as one sibling has failed,
\* with the error of the sibling that failed first, whatever the others are
\* doing, and the walker completes with that error; the other siblings are
\* not touched by it (a sibling is settled only by its own merge or failure),
\* and the fragments merged, before or after the failure, stay in the root.
C18_FirstFailureFailsWalker ==
  /\ \A g \in DOMAIN walkers :
       /\ walkers[g].all = "rejected" <=> FailedChildren(g) # {}
       /\ FailedChildren(g) # {} => walkers[g].error = tasks[FirstFailure(g)].error
       /\ walkers[g].result \in {"pending", walkers[g].all}
  /\ \A t \in TaskIds :
       /\ Settled(t) <=> (Merged(t) \/ Failed(t))
       /\ Failed(t) => tasks[t].error # NoError
  /\ phase = "constructed" => service = MergeAll(walkers[0].config, MergedFragments)

\* the activation has failed and re-raised the first failure; of the two
\* siblings that do not fail one merged before that failure and one after it
C18_Witness ==
  \E f, a, b \in Children(tasks, 0) :
    /\ Failed(f) /\ Merged(a) /\ Merged(b)
    /\ SettledAt(a) < SettledAt(f) /\ SettledAt(f) < SettledAt(b)
    /\ walkers[0].result = "rejected" /\ rethrown
    /\ stderr = <<tasks[f].error>>
    /\ service = MergeAll(walkers[0].config, <<tasks[a].config, tasks[b].config>>)
\* -------------------------------------------------------------- cycles (C19)

\* The root imports a fragment that imports itself, directly (loop.yml) or
\* through another fragment (ping.yml and pong.yml).
RootImportsCycle ==
  phase = "constructed" /\ walkers[0].scanned \in {Str(RawLoop), Str(RawPing)}

\* Every import of the cycle that merged has dispatched the next one, so one
\* import is always still to run: no quiescent state.
CycleKeepsDispatching ==
  RootImportsCycle =>
    /\ \A t \in TaskIds : Merged(t) => Children(tasks, t) # {}
    /\ \A t \in TaskIds : ~Failed(t)
    /\ ~Quiescent

\* C19: when a fragment imports itself, directly or through another fragment,
\* imports keep being dispatched and merged, no quiescent state is reached,
\* and the top-level activation never completes successfully.
C19_CycleNeverCompletes ==
  /\ CycleKeepsDispatching
  /\ RootImportsCycle => walkers[0].result # "fulfilled"
\* ---------------------------------------------------- no deduplication (C20)

\* The occurrences of declarations in a custom.import field: the elements of
\* a list, or a single string.
Occurrences(field) ==
  IF field.kind = "array" THEN field.elems
  ELSE IF field.kind = "string" /\ field.module # <<>> THEN <<field>>
  ELSE <<>>

Count(seq, x) == Cardinality({i \in 1..Len(seq) : seq[i] = x})

\* C20: nothing is cached or deduplicated: every occurrence of a declaration,
\* repeated or not, has an import of its own, which is resolved, logged,
\* loaded, prepared and merged by itself; a fragment merged N times is logged
\* N times and is N times in the fold that makes the root.
C20_EveryOccurrenceImported ==
  /\ \A g \in DOMAIN walkers : DispatchedFrom(g, 1) = Occurrences(walkers[g].scanned)
  /\ \A t \in TaskIds :
       /\ (Merged(t) \/ Failed(t)) => ResolutionRan(t)
       /\ Merged(t) =>
            /\ Len(tasks[t].calls) = 1
            /\ tasks[t].config = PrepareImportedConfig(tasks[t].importPath, tasks[t].loaded)
            /\ Count(mergeLog, t) = 1
       /\ ResolutionOk(t) /\ (Merged(t) \/ Failed(t)) =>
            Count(cliLog, tasks[t].importPath) =
              Cardinality({u \in TaskIds : /\ Merged(u) \/ Failed(u)
                                           /\ tasks[u].importPath = tasks[t].importPath})
  /\ Len(mergeLog) = Cardinality({t \in TaskIds : Merged(t)})
  /\ phase = "constructed" => service = MergeAll(walkers[0].config, MergedFragments)

\* shared.yml, declared twice in the root's list, was resolved, logged, loaded
\* and merged twice: the plugin it adds is twice in the root's list
C20_Witness ==
  \E t, u \in TaskIds :
    /\ t # u /\ tasks[t].options = tasks[u].options /\ tasks[t].parent = tasks[u].parent
    /\ Merged(t) /\ Merged(u) /\ Quiescent
    /\ tasks[t].probes # <<>> /\ tasks[u].probes = tasks[t].probes
    /\ Count(cliLog, tasks[t].importPath) = 2
    /\ tasks[t].config.plugins = <<"pa">>
    /\ PluginsOrEmpty(walkers[0].config) = <<>>
    /\ service.plugins = <<"pa", "pa">>
====
